---- MODULE Spec2Model ----
\* A model of the Dapr operator's bootstrap: pkg/operator/operator.go.
\* The main goroutine runs NewOperator and then Run; the controller manager,
\* the filesystem-watch goroutine of loadCertChain, the health server and the
\* API server run beside it.  log.Fatal/log.Fatalf end the process: once
\* `fatal` is set no step of any goroutine is taken.
EXTENDS Integers, Sequences, FiniteSets, TLC

\* ---------------------------------------------------------------- bounds
\* Resolution of the clock: ticks per minute of wall-clock time.
TicksPerMinute == 1
\* Filesystem events the watch generates during one run.
MaxFsEvents == 2
\* Callbacks the Component informer delivers during one run.
MaxCallbacks == 1
\* Callbacks it delivers during one run in which nothing happens in the
\* credential directory (NotifierSpec).
MaxNotified == 3
\* Ticks of the Restart Watchdog during one run.
MaxWdTicks == 2
\* Pods a tick can find eligible for a restart, and that can await their
\* evaluation at one time.
MaxTargets == 3
\* Options.WatchdogMaxRestartsPerMin of the run.
WatchdogMaxRestartsPerMin == 2
\* Receives on the closed fsevent channel that are followed (the loop of
\* loadCertChain spins without bound once the channel is closed).
MaxClosedRecvs == 1

\* ------------------------------------------------------------- constants
\* context.WithTimeout(ctx, time.Minute): the watch deadline, in ticks.
WatchTimeout == TicksPerMinute * 1

\* The value of `elapsed` while no timer is armed.
NoTimer == 0 - 1

\* The three credential files read by credentials.LoadFromDisk.
AllFiles == {"rootCert", "cert", "key"}
\* The chain value of a failed load (a nil *CertChain).
NilChain == {}
\* certChain before loadCertChain has assigned it; apiChain before the call.
Unset == {"unset"}
NotCalled == {"notCalled"}

\* Payloads an informer callback can carry: two Components and an object of
\* another kind (obj.(*componentsapi.Component) fails for it).
Components == {"compA", "compB"}
Payloads == Components \cup {"notAComponent"}

\* The Options that decide what NewOperator adds to the manager.
BoolOpts == [WatchdogEnabled : BOOLEAN, LeaderElection : BOOLEAN]

VARIABLES
    opts,          \* Options given to NewOperator
    pc,            \* position of the main goroutine in NewOperator / Run
    fatal,         \* "none", or the cause log.Fatal ended the process with
    ctxDone,       \* the root context given to Run is cancelled
    cancelledInWait, \* ... and was cancelled while loadCertChain waited
    mgr,           \* the controller manager and its cache
    warned,        \* the "forcibly enabled" warning was logged
    delivered,     \* payloads the informer passed to the registered handlers
    forwarded,     \* objects passed to apiServer.OnComponentUpdated
    waitResult,    \* what WaitForCacheSync returned: "none", "true", "false"
    config,        \* o.config: "nil" or "loaded"
    files,         \* credential files that are loadable on disk
    watchCtxErr,   \* watchCtx.Err(): "unset" (no context yet), "nil",
                   \* "Canceled", "DeadlineExceeded"
    elapsed,       \* ticks since the timer of watchCtx was armed, or NoTimer
    wpc,           \* position of the watch goroutine
    watchRet,      \* what fswatcher.Watch returned: "none", "WatchError",
                   \* "Canceled", "DeadlineExceeded"
    fseventClosed, \* close(fsevent) has run
    fsEvents,      \* events the watch has generated for fsevent
    eventsRecv,    \* events the main goroutine has received from fsevent
    closedRecvs,   \* receives that returned because fsevent is closed
    reads,         \* credentials.LoadFromDisk attempts
    certChain,     \* the chain loadCertChain holds: Unset, or a chain
    healthz,       \* the health server
    apiChain,      \* chain given to apiServer.Run: NotCalled, or a chain
    lateRead,      \* a LoadFromDisk attempt followed a receive on the closed
                   \* fsevent
    filesAtCall,   \* what was loadable when loadCertChain began: "absent",
                   \* "partial" or "loadable"; "notCalled" before the call
    wd,            \* the DaprWatchdog given to the manager, and its budget
    leader         \* this instance was elected leader (holds the lease)

ctxVars == <<ctxDone, cancelledInWait>>
optVars == <<opts, warned>>
mgrVars == <<mgr, delivered, forwarded>>
certVars == <<watchCtxErr, elapsed, wpc, watchRet, fseventClosed, fsEvents,
              eventsRecv, closedRecvs, reads, certChain, lateRead, filesAtCall>>
runVars == <<waitResult, config, healthz, apiChain>>
wdVars == <<wd, leader>>
vars == <<opts, pc, fatal, ctxDone, cancelledInWait, mgr, warned, delivered,
          forwarded,
          waitResult, config, files, watchCtxErr, elapsed, wpc, watchRet,
          fseventClosed, fsEvents, eventsRecv, closedRecvs, reads, certChain,
          healthz, apiChain, lateRead, filesAtCall, wd, leader>>

Alive == fatal = "none"

\* log.Fatal / log.Fatalf: the process exits with the cause logged.
Fatalf(cause) == fatal' = cause

Init ==
    /\ opts \in BoolOpts
    /\ pc = "GetConfig"
    /\ fatal = "none"
    /\ ctxDone = FALSE
    /\ cancelledInWait = FALSE
    /\ mgr = [created |-> FALSE, leaderElection |-> FALSE, watchdog |-> FALSE,
              handlers |-> FALSE, started |-> FALSE, synced |-> FALSE,
              ended |-> FALSE]
    /\ warned = FALSE
    /\ delivered = <<>>
    /\ forwarded = <<>>
    /\ waitResult = "none"
    /\ config = "nil"
    /\ files \in SUBSET AllFiles
    /\ watchCtxErr = "unset"
    /\ elapsed = NoTimer
    /\ wpc = "notStarted"
    /\ watchRet = "none"
    /\ fseventClosed = FALSE
    /\ fsEvents = 0
    /\ eventsRecv = 0
    /\ closedRecvs = 0
    /\ reads = 0
    /\ certChain = Unset
    /\ healthz = [started |-> FALSE, ready |-> FALSE, ended |-> FALSE]
    /\ apiChain = NotCalled
    /\ lateRead = FALSE
    /\ filesAtCall = "notCalled"
    /\ wd = [maxRestartsPerMin |-> 0, spent |-> 0, issued |-> 0,
             pending |-> 0, ticks |-> 0]
    /\ leader = FALSE

\* ------------------------------------------------------------ NewOperator

\* ctrl.GetConfig(); an error is fatal.
GetConfig ==
    /\ Alive /\ pc = "GetConfig"
    /\ \E ok \in BOOLEAN :
         IF ok THEN pc' = "NewManager" /\ UNCHANGED fatal
               ELSE Fatalf("GetConfig") /\ UNCHANGED pc
    /\ UNCHANGED <<wdVars, ctxVars, optVars, mgrVars, certVars, runVars, files>>

\* NewManager, were the manager also started where it is built.
NewManagerStarted ==
    /\ Alive /\ pc = "NewManager"
    /\ \E ok \in BOOLEAN :
         IF ok
         THEN /\ mgr' = [mgr EXCEPT !.created = TRUE, !.started = TRUE,
                                    !.leaderElection = opts.LeaderElection]
              /\ pc' = "Watchdog"
              /\ UNCHANGED fatal
         ELSE Fatalf("NewManager") /\ UNCHANGED <<pc, mgr>>
    /\ UNCHANGED <<wdVars, ctxVars, optVars, delivered, forwarded, certVars, runVars,
                   files>>

\* ctrl.NewManager(conf, Options{LeaderElection: opts.LeaderElection, ...}).
NewManager ==
    /\ Alive /\ pc = "NewManager"
    /\ \E ok \in BOOLEAN :
         IF ok
         THEN /\ mgr' = [mgr EXCEPT !.created = TRUE,
                                    !.leaderElection = opts.LeaderElection]
              /\ pc' = "Watchdog"
              /\ UNCHANGED fatal
         ELSE Fatalf("NewManager") /\ UNCHANGED <<pc, mgr>>
    /\ UNCHANGED <<wdVars, ctxVars, optVars, delivered, forwarded, certVars, runVars,
                   files>>

\* AddWatchdog, were the limit handed to the watchdog off by one.
AddWatchdogOffByOne ==
    /\ Alive /\ pc = "Watchdog"
    /\ IF opts.WatchdogEnabled
       THEN /\ warned' = (warned \/ ~opts.LeaderElection)
            /\ \E ok \in BOOLEAN :
                 IF ok THEN /\ mgr' = [mgr EXCEPT !.watchdog = TRUE]
                            /\ wd' = [wd EXCEPT !.maxRestartsPerMin =
                                         WatchdogMaxRestartsPerMin + 1]
                            /\ pc' = "ServiceReconciler"
                            /\ UNCHANGED fatal
                       ELSE Fatalf("AddWatchdog") /\ UNCHANGED <<pc, mgr, wd>>
       ELSE pc' = "ServiceReconciler" /\ UNCHANGED <<fatal, mgr, warned, wd>>
    /\ UNCHANGED <<ctxVars, opts, delivered, forwarded, certVars, runVars,
                   files, leader>>

\* AddWatchdog, were the watchdog added whatever opts.WatchdogEnabled.
AddWatchdogAlways ==
    /\ Alive /\ pc = "Watchdog"
    /\ warned' = (warned \/ ~opts.LeaderElection)
    /\ \E ok \in BOOLEAN :
         IF ok THEN /\ mgr' = [mgr EXCEPT !.watchdog = TRUE]
                    /\ wd' = [wd EXCEPT !.maxRestartsPerMin =
                                 WatchdogMaxRestartsPerMin]
                    /\ pc' = "ServiceReconciler"
                    /\ UNCHANGED fatal
               ELSE Fatalf("AddWatchdog") /\ UNCHANGED <<pc, mgr, wd>>
    /\ UNCHANGED <<ctxVars, opts, delivered, forwarded, certVars, runVars,
                   files, leader>>

\* if opts.WatchdogEnabled { warn; wd := &DaprWatchdog{..., maxRestartsPerMin:
\* opts.WatchdogMaxRestartsPerMin}; mgr.Add(wd) } else { log.Infof }.
AddWatchdog ==
    /\ Alive /\ pc = "Watchdog"
    /\ IF opts.WatchdogEnabled
       THEN /\ warned' = (warned \/ ~opts.LeaderElection)
            /\ \E ok \in BOOLEAN :
                 IF ok THEN /\ mgr' = [mgr EXCEPT !.watchdog = TRUE]
                            /\ wd' = [wd EXCEPT !.maxRestartsPerMin =
                                         WatchdogMaxRestartsPerMin]
                            /\ pc' = "ServiceReconciler"
                            /\ UNCHANGED fatal
                       ELSE Fatalf("AddWatchdog") /\ UNCHANGED <<pc, mgr, wd>>
       ELSE pc' = "ServiceReconciler" /\ UNCHANGED <<fatal, mgr, warned, wd>>
    /\ UNCHANGED <<ctxVars, opts, delivered, forwarded, certVars, runVars,
                   files, leader>>

\* if opts.ServiceReconcilerEnabled { daprHandler.Init() }; then the operator
\* is built and api.NewAPIServer(o.client) is attached.
InitHandler ==
    /\ Alive /\ pc = "ServiceReconciler"
    /\ \E ServiceReconcilerEnabled \in BOOLEAN, ok \in BOOLEAN :
         IF ServiceReconcilerEnabled /\ ~ok
         THEN Fatalf("HandlerInit") /\ UNCHANGED pc
         ELSE pc' = "GetInformer" /\ UNCHANGED fatal
    /\ UNCHANGED <<wdVars, ctxVars, optVars, mgrVars, certVars, runVars, files>>

\* mgr.GetCache().GetInformer(ctx, &Component{}) under a 30 s context.
GetInformer ==
    /\ Alive /\ pc = "GetInformer"
    /\ \E ok \in BOOLEAN :
         IF ok THEN pc' = "AddEventHandler" /\ UNCHANGED fatal
               ELSE Fatalf("GetInformer") /\ UNCHANGED pc
    /\ UNCHANGED <<wdVars, ctxVars, optVars, mgrVars, certVars, runVars, files>>

\* componentInformer.AddEventHandler({AddFunc, UpdateFunc}); return o.
AddEventHandler ==
    /\ Alive /\ pc = "AddEventHandler"
    /\ mgr' = [mgr EXCEPT !.handlers = TRUE]
    /\ pc' = "RunStart"
    /\ UNCHANGED <<wdVars, fatal, ctxVars, optVars, delivered, forwarded, certVars,
                   runVars, files>>

\* ---------------------------------------------------- the Change Notifier

\* c, ok := obj.(*componentsapi.Component)
IsComponent(obj) == obj \in Components

\* syncComponent, were the payload forwarded whatever its type.
syncComponentUnchecked(obj) == <<obj>>

\* syncComponent(obj): the calls of OnComponentUpdated it adds.
syncComponent(obj) == IF IsComponent(obj) THEN <<obj>> ELSE <<>>

\* The informer may deliver once the handlers are registered and the manager
\* runs its caches.
InformerLive ==
    Alive /\ mgr.handlers /\ mgr.started /\ ~mgr.ended

\* AddFunc: o.syncComponent, for the first n callbacks of a run.
OnAddUpTo(n) ==
    /\ InformerLive /\ Len(delivered) < n
    /\ \E obj \in Payloads :
         /\ delivered' = Append(delivered, obj)
         /\ forwarded' = forwarded \o syncComponent(obj)
    /\ UNCHANGED <<wdVars, pc, fatal, ctxVars, optVars, mgr, certVars, runVars, files>>

\* UpdateFunc: func(_, newObj any) { o.syncComponent(newObj) }, for the
\* first n callbacks of a run.
OnUpdateUpTo(n) ==
    /\ InformerLive /\ Len(delivered) < n
    /\ \E oldObj \in Payloads, newObj \in Payloads :
         /\ delivered' = Append(delivered, newObj)
         /\ forwarded' = forwarded \o syncComponent(newObj)
    /\ UNCHANGED <<wdVars, pc, fatal, ctxVars, optVars, mgr, certVars, runVars, files>>

OnAdd == OnAddUpTo(MaxCallbacks)
OnUpdate == OnUpdateUpTo(MaxCallbacks)

\* ------------------------------------------------------------------- Run

\* go func() { if err := o.mgr.Start(ctx); err != nil { log.Fatalf } }()
RunStartMgr ==
    /\ Alive /\ pc = "RunStart"
    /\ mgr' = [mgr EXCEPT !.started = TRUE]
    /\ pc' = "WaitForCacheSync"
    /\ UNCHANGED <<wdVars, fatal, ctxVars, optVars, delivered, forwarded, certVars,
                   runVars, files>>

\* WaitForCacheSync, were its result not checked.
WaitForCacheSyncUnchecked ==
    /\ Alive /\ pc = "WaitForCacheSync"
    /\ \/ mgr.synced /\ waitResult' = "true"
       \/ ctxDone /\ waitResult' = "false"
    /\ pc' = "prepareConfig"
    /\ UNCHANGED <<wdVars, fatal, ctxVars, optVars, mgrVars, certVars, config, healthz,
                   apiChain, files>>

\* if !o.mgr.GetCache().WaitForCacheSync(ctx) { log.Fatalf }.  The wait
\* returns true once the caches are synced and false once ctx is done.
WaitForCacheSync ==
    /\ Alive /\ pc = "WaitForCacheSync"
    /\ \/ /\ mgr.synced
          /\ waitResult' = "true"
          /\ pc' = "prepareConfig"
          /\ UNCHANGED fatal
       \/ /\ ctxDone
          /\ waitResult' = "false"
          /\ Fatalf("CacheSync")
          /\ UNCHANGED pc
    /\ UNCHANGED <<wdVars, ctxVars, optVars, mgrVars, certVars, config, healthz,
                   apiChain, files>>

\* o.config, err = LoadConfiguration(...); fatal on err; then the credential
\* paths are attached.
prepareConfig ==
    /\ Alive /\ pc = "prepareConfig"
    /\ \E ok \in BOOLEAN :
         IF ok THEN config' = "loaded" /\ pc' = "lcStart" /\ UNCHANGED fatal
               ELSE Fatalf("LoadConfiguration") /\ UNCHANGED <<pc, config>>
    /\ UNCHANGED <<wdVars, ctxVars, optVars, mgrVars, certVars, waitResult, healthz,
                   apiChain, files>>

\* --------------------------------------------------------- loadCertChain

\* credentials.LoadFromDisk(rootCertPath, certPath, keyPath): the chain of the
\* three files, or an error and no chain when one of them cannot be read.
LoadFromDisk(fs) ==
    IF AllFiles \subseteq fs THEN [err |-> FALSE, chain |-> AllFiles]
                             ELSE [err |-> TRUE, chain |-> NilChain]

\* The files on disk as loadCertChain finds them when it is called.
AtCall(fs) ==
    IF ~LoadFromDisk(fs).err THEN "loadable"
    ELSE IF fs \cap AllFiles = {} THEN "absent" ELSE "partial"

\* errors.Is(err, context.Canceled)
IsCanceled(err) == err = "Canceled"

\* LcStart, were watchCtx made with context.WithCancel: no timer is armed.
LcStartNoDeadline ==
    /\ Alive /\ pc = "lcStart"
    /\ watchCtxErr' = IF ctxDone THEN "Canceled" ELSE "nil"
    /\ elapsed' = NoTimer
    /\ wpc' = "spawned"
    /\ filesAtCall' = AtCall(files)
    /\ pc' = "lcRead"
    /\ UNCHANGED <<wdVars, fatal, ctxVars, optVars, mgrVars, runVars, files, watchRet,
                   fseventClosed, fsEvents, eventsRecv, closedRecvs, reads,
                   certChain, lateRead>>

\* LcStart, were the loop to wait on fsevent before its first load.
LcStartWaitsFirst ==
    /\ Alive /\ pc = "lcStart"
    /\ watchCtxErr' = IF ctxDone THEN "Canceled" ELSE "nil"
    /\ elapsed' = 0
    /\ wpc' = "spawned"
    /\ filesAtCall' = AtCall(files)
    /\ pc' = "lcWait"
    /\ UNCHANGED <<wdVars, fatal, ctxVars, optVars, mgrVars, runVars, files, watchRet,
                   fseventClosed, fsEvents, eventsRecv, closedRecvs, reads,
                   certChain, lateRead>>

\* watchCtx, watchCancel := context.WithTimeout(ctx, time.Minute);
\* fsevent := make(chan struct{}); go func() { ... }()
LcStart ==
    /\ Alive /\ pc = "lcStart"
    /\ watchCtxErr' = IF ctxDone THEN "Canceled" ELSE "nil"
    /\ elapsed' = 0
    /\ wpc' = "spawned"
    /\ filesAtCall' = AtCall(files)
    /\ pc' = "lcRead"
    /\ UNCHANGED <<wdVars, fatal, ctxVars, optVars, mgrVars, runVars, files, watchRet,
                   fseventClosed, fsEvents, eventsRecv, closedRecvs, reads,
                   certChain, lateRead>>

\* LcRead, were err not checked before the chain is taken.
LcReadIgnoresErr ==
    /\ Alive /\ pc = "lcRead"
    /\ reads' = reads + 1
    /\ lateRead' = (lateRead \/ closedRecvs > 0)
    /\ certChain' = LoadFromDisk(files).chain
    /\ pc' = "lcCancel"
    /\ UNCHANGED <<wdVars, fatal, ctxVars, optVars, mgrVars, runVars, files,
                   watchCtxErr, elapsed, wpc, watchRet, fseventClosed,
                   fsEvents, eventsRecv, closedRecvs, filesAtCall>>

\* chain, err := credentials.LoadFromDisk(...); if err == nil { certChain =
\* chain; break }; otherwise go on to <-fsevent.
LcRead ==
    /\ Alive /\ pc = "lcRead"
    /\ reads' = reads + 1
    /\ lateRead' = (lateRead \/ closedRecvs > 0)
    /\ LET r == LoadFromDisk(files) IN
         IF ~r.err THEN certChain' = r.chain /\ pc' = "lcCancel"
                   ELSE pc' = "lcWait" /\ UNCHANGED certChain
    /\ UNCHANGED <<wdVars, fatal, ctxVars, optVars, mgrVars, runVars, files,
                   watchCtxErr, elapsed, wpc, watchRet, fseventClosed,
                   fsEvents, eventsRecv, closedRecvs, filesAtCall>>

\* <-fsevent receives an event sent by the watch.
LcRecvEvent ==
    /\ Alive /\ pc = "lcWait"
    /\ ~fseventClosed /\ eventsRecv < fsEvents
    /\ eventsRecv' = eventsRecv + 1
    /\ pc' = "lcRead"
    /\ UNCHANGED <<wdVars, fatal, ctxVars, optVars, mgrVars, runVars, files,
                   watchCtxErr, elapsed, wpc, watchRet, fseventClosed,
                   fsEvents, closedRecvs, reads, certChain, lateRead,
                   filesAtCall>>

\* <-fsevent on the closed channel returns at once.
LcRecvClosed ==
    /\ Alive /\ pc = "lcWait"
    /\ fseventClosed /\ closedRecvs < MaxClosedRecvs
    /\ closedRecvs' = closedRecvs + 1
    /\ pc' = "lcRead"
    /\ UNCHANGED <<wdVars, fatal, ctxVars, optVars, mgrVars, runVars, files,
                   watchCtxErr, elapsed, wpc, watchRet, fseventClosed,
                   fsEvents, eventsRecv, reads, certChain, lateRead,
                   filesAtCall>>

\* watchCancel(); return certChain
LcCancel ==
    /\ Alive /\ pc = "lcCancel"
    /\ watchCtxErr' = IF watchCtxErr = "nil" THEN "Canceled" ELSE watchCtxErr
    /\ pc' = "StartHealthz"
    /\ UNCHANGED <<wdVars, fatal, ctxVars, optVars, mgrVars, runVars, files, elapsed,
                   wpc, watchRet, fseventClosed, fsEvents, eventsRecv,
                   closedRecvs, reads, certChain, lateRead,
                   filesAtCall>>

\* The goroutine enters fswatcher.Watch(watchCtx, path, fsevent): the watch on
\* the directory is established, or Watch fails.
WatchSetup ==
    /\ Alive /\ wpc = "spawned"
    /\ \E ok \in BOOLEAN :
         IF ok THEN wpc' = "watching" /\ UNCHANGED watchRet
               ELSE wpc' = "returned" /\ watchRet' = "WatchError"
    /\ UNCHANGED <<wdVars, pc, fatal, ctxVars, optVars, mgrVars, runVars, files,
                   watchCtxErr, elapsed, fseventClosed, fsEvents, eventsRecv,
                   closedRecvs, reads, certChain, lateRead,
                   filesAtCall>>

\* Watch returns watchCtx.Err() once watchCtx is done ("Watch always returns
\* an error, which is context.Canceled if everything went well").
WatchReturns ==
    /\ Alive /\ wpc = "watching"
    /\ watchCtxErr \in {"Canceled", "DeadlineExceeded"}
    /\ watchRet' = watchCtxErr
    /\ wpc' = "returned"
    /\ UNCHANGED <<wdVars, pc, fatal, ctxVars, optVars, mgrVars, runVars, files,
                   watchCtxErr, elapsed, fseventClosed, fsEvents, eventsRecv,
                   closedRecvs, reads, certChain, lateRead,
                   filesAtCall>>

\* Watch returns an error of the watcher.
WatchFails ==
    /\ Alive /\ wpc = "watching"
    /\ watchRet' = "WatchError"
    /\ wpc' = "returned"
    /\ UNCHANGED <<wdVars, pc, fatal, ctxVars, optVars, mgrVars, runVars, files,
                   watchCtxErr, elapsed, fseventClosed, fsEvents, eventsRecv,
                   closedRecvs, reads, certChain, lateRead,
                   filesAtCall>>

\* WatchCheckErr, were the error of Watch not looked at.
WatchCheckErrIgnored ==
    /\ Alive /\ wpc = "returned"
    /\ fseventClosed' = TRUE /\ wpc' = "closed"
    /\ UNCHANGED <<wdVars, pc, fatal, ctxVars, optVars, mgrVars, runVars, files,
                   watchCtxErr, elapsed, watchRet, fsEvents, eventsRecv,
                   closedRecvs, reads, certChain, lateRead, filesAtCall>>

\* if err != nil && !errors.Is(err, context.Canceled) { log.Fatalf(...) }
\* close(fsevent)
WatchCheckErr ==
    /\ Alive /\ wpc = "returned"
    /\ IF watchRet # "none" /\ ~IsCanceled(watchRet)
       THEN Fatalf("WatchError") /\ UNCHANGED <<wpc, fseventClosed>>
       ELSE fseventClosed' = TRUE /\ wpc' = "closed" /\ UNCHANGED fatal
    /\ UNCHANGED <<wdVars, pc, ctxVars, optVars, mgrVars, runVars, files, watchCtxErr,
                   elapsed, watchRet, fsEvents, eventsRecv, closedRecvs, reads,
                   certChain, lateRead,
                   filesAtCall>>

\* if watchCtx.Err() == context.DeadlineExceeded { log.Fatal("Timeout ...") }
WatchCheckDeadline ==
    /\ Alive /\ wpc = "closed"
    /\ IF watchCtxErr = "DeadlineExceeded"
       THEN Fatalf("Timeout") /\ UNCHANGED wpc
       ELSE wpc' = "done" /\ UNCHANGED fatal
    /\ UNCHANGED <<wdVars, pc, ctxVars, optVars, mgrVars, runVars, files, watchCtxErr,
                   elapsed, watchRet, fseventClosed, fsEvents, eventsRecv,
                   closedRecvs, reads, certChain, lateRead,
                   filesAtCall>>

\* ------------------------------------------------------- the rest of Run

\* StartHealthz, were the server marked ready where it is started.
StartHealthzReady ==
    /\ Alive /\ pc = "StartHealthz"
    /\ healthz' = [healthz EXCEPT !.started = TRUE, !.ready = TRUE]
    /\ pc' = "apiServerRun"
    /\ UNCHANGED <<wdVars, fatal, ctxVars, optVars, mgrVars, certVars, waitResult,
                   config, apiChain, files>>

\* healthzServer := health.NewServer(log); go func() { healthzServer.Run }()
StartHealthz ==
    /\ Alive /\ pc = "StartHealthz"
    /\ healthz' = [healthz EXCEPT !.started = TRUE]
    /\ pc' = "apiServerRun"
    /\ UNCHANGED <<wdVars, fatal, ctxVars, optVars, mgrVars, certVars, waitResult,
                   config, apiChain, files>>

\* o.apiServer.Run(ctx, certChain, func() { healthzServer.Ready(); ... })
ApiServerRun ==
    /\ Alive /\ pc = "apiServerRun"
    /\ apiChain' = certChain
    /\ pc' = "apiServerRunning"
    /\ UNCHANGED <<wdVars, fatal, ctxVars, optVars, mgrVars, certVars, waitResult,
                   config, healthz, files>>

\* The API server invokes the readiness callback: healthzServer.Ready().
ApiServerReady ==
    /\ Alive /\ pc = "apiServerRunning"
    /\ ~healthz.ready
    /\ healthz' = [healthz EXCEPT !.ready = TRUE]
    /\ UNCHANGED <<wdVars, pc, fatal, ctxVars, optVars, mgrVars, certVars, waitResult,
                   config, apiChain, files>>

\* apiServer.Run returns on shutdown; log.Infof("... shutting down"); return.
ApiServerReturns ==
    /\ Alive /\ pc = "apiServerRunning"
    /\ ctxDone
    /\ pc' = "Returned"
    /\ UNCHANGED <<wdVars, fatal, ctxVars, optVars, mgrVars, certVars, runVars, files>>

\* ------------------------------------------------- background goroutines

\* err := healthzServer.Run(ctx, healthzPort); if err != nil { log.Fatalf }
HealthzFails ==
    /\ Alive /\ healthz.started /\ ~healthz.ended
    /\ Fatalf("Healthz")
    /\ UNCHANGED <<wdVars, pc, ctxVars, optVars, mgrVars, certVars, runVars, files>>

\* healthzServer.Run(ctx, healthzPort) returns nil once ctx is done.
HealthzReturns ==
    /\ Alive /\ healthz.started /\ ~healthz.ended /\ ctxDone
    /\ healthz' = [healthz EXCEPT !.ended = TRUE]
    /\ UNCHANGED <<wdVars, pc, fatal, ctxVars, optVars, mgrVars, certVars,
                   waitResult, config, apiChain, files>>

\* if err := o.mgr.Start(ctx); err != nil { log.Fatalf }
MgrStartFails ==
    /\ Alive /\ mgr.started /\ ~mgr.ended
    /\ Fatalf("ManagerStart")
    /\ UNCHANGED <<wdVars, pc, ctxVars, optVars, mgrVars, certVars, runVars, files>>

\* MgrStartReturns, were every return of mgr.Start fatal.
MgrStartReturnsFatal ==
    /\ Alive /\ mgr.started /\ ~mgr.ended /\ ctxDone
    /\ Fatalf("ManagerStart")
    /\ UNCHANGED <<wdVars, pc, ctxVars, optVars, mgrVars, certVars, runVars,
                   files>>

\* o.mgr.Start(ctx) returns nil once ctx is done.
MgrStartReturns ==
    /\ Alive /\ mgr.started /\ ~mgr.ended /\ ctxDone
    /\ mgr' = [mgr EXCEPT !.ended = TRUE]
    /\ UNCHANGED <<wdVars, pc, fatal, ctxVars, optVars, delivered, forwarded, certVars,
                   runVars, files>>

\* The caches of the started manager finish their initial list.
CacheSynced ==
    /\ Alive /\ mgr.started /\ ~mgr.ended /\ ~mgr.synced
    /\ mgr' = [mgr EXCEPT !.synced = TRUE]
    /\ UNCHANGED <<wdVars, pc, fatal, ctxVars, optVars, delivered, forwarded, certVars,
                   runVars, files>>

\* --------------------------------------------------- the Restart Watchdog

\* The started manager runs a runnable that needs leader election at once
\* when it was built without leader election, and otherwise only once this
\* instance is elected.
WatchdogRuns ==
    /\ Alive /\ mgr.watchdog /\ mgr.started /\ ~mgr.ended
    /\ mgr.leaderElection => leader

\* The started manager, built with leader election, wins the election.
ElectLeader ==
    /\ Alive /\ mgr.started /\ ~mgr.ended
    /\ mgr.leaderElection /\ ~leader
    /\ leader' = TRUE
    /\ UNCHANGED <<wd, pc, fatal, ctxVars, optVars, mgrVars, certVars,
                   runVars, files>>

\* A tick of the watchdog: it enumerates the pods eligible for a restart;
\* they await their evaluation, beside those of a tick that has overrun.
WatchdogTick ==
    /\ WatchdogRuns
    /\ wd.ticks < MaxWdTicks
    /\ \E n \in 0..MaxTargets :
         /\ wd.pending + n <= MaxTargets
         /\ wd' = [wd EXCEPT !.ticks = @ + 1, !.pending = @ + n]
    /\ UNCHANGED <<leader, pc, fatal, ctxVars, optVars, mgrVars, certVars,
                   runVars, files>>

\* Evaluation of one eligible pod while the budget of the window has a unit
\* left: the unit is spent and the restart (delete pod) is issued.
WatchdogRestart ==
    /\ WatchdogRuns
    /\ wd.pending > 0
    /\ wd.spent < wd.maxRestartsPerMin
    /\ wd' = [wd EXCEPT !.spent = @ + 1, !.issued = @ + 1, !.pending = @ - 1]
    /\ UNCHANGED <<leader, pc, fatal, ctxVars, optVars, mgrVars, certVars,
                   runVars, files>>

\* Evaluation of one eligible pod with the budget exhausted: the restart is
\* skipped and left to a later tick.
WatchdogSkip ==
    /\ WatchdogRuns
    /\ wd.pending > 0
    /\ wd.spent >= wd.maxRestartsPerMin
    /\ wd' = [wd EXCEPT !.pending = @ - 1]
    /\ UNCHANGED <<leader, pc, fatal, ctxVars, optVars, mgrVars, certVars,
                   runVars, files>>

\* A one-minute window of the budget ends and the next one begins.
WindowRolls ==
    /\ Alive /\ mgr.watchdog
    /\ wd.spent > 0 \/ wd.issued > 0
    /\ wd' = [wd EXCEPT !.spent = 0, !.issued = 0]
    /\ UNCHANGED <<leader, pc, fatal, ctxVars, optVars, mgrVars, certVars,
                   runVars, files>>

\* ------------------------------------------------------- the environment

\* The caller cancels the root context; a context derived from it that is
\* not yet done is cancelled with it.
CtxCancel ==
    /\ Alive /\ ~ctxDone
    /\ ctxDone' = TRUE
    /\ cancelledInWait' = (pc = "lcWait")
    /\ watchCtxErr' = IF watchCtxErr = "nil" THEN "Canceled" ELSE watchCtxErr
    /\ UNCHANGED <<wdVars, pc, fatal, optVars, mgrVars, runVars, files, elapsed, wpc,
                   watchRet, fseventClosed, fsEvents, eventsRecv, closedRecvs,
                   reads, certChain, lateRead,
                   filesAtCall>>

\* Time passes for the timer of watchCtx; at WatchTimeout the context ends
\* with DeadlineExceeded.
Tick ==
    /\ Alive /\ watchCtxErr = "nil"
    /\ elapsed # NoTimer /\ elapsed < WatchTimeout
    /\ elapsed' = elapsed + 1
    /\ watchCtxErr' = IF elapsed + 1 = WatchTimeout THEN "DeadlineExceeded"
                                                    ELSE watchCtxErr
    /\ UNCHANGED <<wdVars, pc, fatal, ctxVars, optVars, mgrVars, runVars, files, wpc,
                   watchRet, fseventClosed, fsEvents, eventsRecv, closedRecvs,
                   reads, certChain, lateRead,
                   filesAtCall>>

\* An established watch turns a change in the directory into an event.
WatchSees == IF wpc = "watching" THEN 1 ELSE 0

\* Credential files become loadable on disk, one or several at once (a
\* mounted secret appears as a whole); an established watch reports the
\* change as one event.
CreateFile ==
    /\ Alive
    /\ \E fs \in SUBSET (AllFiles \ files) :
         /\ fs # {}
         /\ files' = files \cup fs
    /\ fsEvents + WatchSees <= MaxFsEvents
    /\ fsEvents' = fsEvents + WatchSees
    /\ UNCHANGED <<wdVars, pc, fatal, ctxVars, optVars, mgrVars, runVars, watchCtxErr,
                   elapsed, wpc, watchRet, fseventClosed, eventsRecv,
                   closedRecvs, reads, certChain, lateRead,
                   filesAtCall>>

\* Other activity in the watched directory that makes no file loadable.
FsActivity ==
    /\ Alive /\ wpc = "watching"
    /\ fsEvents < MaxFsEvents
    /\ fsEvents' = fsEvents + 1
    /\ UNCHANGED <<wdVars, pc, fatal, ctxVars, optVars, mgrVars, runVars, files,
                   watchCtxErr, elapsed, wpc, watchRet, fseventClosed,
                   eventsRecv, closedRecvs, reads, certChain, lateRead,
                   filesAtCall>>

\* ------------------------------------------------------- specifications

Main ==
    \/ GetConfig \/ NewManager \/ AddWatchdog \/ InitHandler \/ GetInformer
    \/ AddEventHandler \/ RunStartMgr \/ WaitForCacheSync \/ prepareConfig
    \/ LcStart \/ LcRead \/ LcRecvEvent \/ LcRecvClosed \/ LcCancel
    \/ StartHealthz \/ ApiServerRun \/ ApiServerReturns

Watcher == WatchSetup \/ WatchReturns \/ WatchCheckErr \/ WatchCheckDeadline

Informer == OnAdd \/ OnUpdate

Collaborators ==
    \/ ApiServerReady \/ HealthzFails \/ HealthzReturns \/ MgrStartFails
    \/ MgrStartReturns \/ CacheSynced

Environment == CtxCancel \/ Tick \/ CreateFile \/ FsActivity \/ WatchFails

Next == Main \/ Watcher \/ Informer \/ Collaborators \/ Environment

Spec == Init /\ [][Next]_vars

\* The program with a silent informer.  OnAdd and OnUpdate change only
\* `delivered` and `forwarded`, which no other step reads.
QuietNext == Main \/ Watcher \/ Collaborators \/ Environment

\* Fairness: the Go scheduler runs a runnable goroutine, and time passes for
\* an armed timer.  Nothing is assumed of the environment or of the
\* collaborators (manager, health server, API server).
FairSpec ==
    /\ Init /\ [][QuietNext]_vars
    /\ WF_vars(Main)
    /\ WF_vars(Watcher)
    /\ WF_vars(Tick)

\* The program while nothing happens in the credential directory and the
\* timer of watchCtx does not run out: the main goroutine receives no event
\* from fsevent.
StillMain ==
    \/ GetConfig \/ NewManager \/ AddWatchdog \/ InitHandler \/ GetInformer
    \/ AddEventHandler \/ RunStartMgr \/ WaitForCacheSync \/ prepareConfig
    \/ LcStart \/ LcRead \/ LcRecvClosed \/ LcCancel
    \/ StartHealthz \/ ApiServerRun \/ ApiServerReturns

StillNext == StillMain \/ Watcher \/ Collaborators \/ CtxCancel

\* ... with the informer delivering up to MaxNotified callbacks.
NotifierNext ==
    StillNext \/ OnAddUpTo(MaxNotified) \/ OnUpdateUpTo(MaxNotified)

NotifierSpec == Init /\ [][NotifierNext]_vars

\* ... with the manager electing a leader and running the watchdog.
Watchdog ==
    ElectLeader \/ WatchdogTick \/ WatchdogRestart \/ WatchdogSkip \/ WindowRolls

WatchdogNext == StillNext \/ Watchdog

WatchdogSpec == Init /\ [][WatchdogNext]_vars

\* The program beside a manager and a health server that do not fail, and a
\* watch that reports no error once it is established.
ShutdownNext ==
    \/ Main \/ Watcher
    \/ ApiServerReady \/ HealthzReturns \/ MgrStartReturns \/ CacheSynced
    \/ CtxCancel \/ Tick \/ CreateFile \/ FsActivity

\* Fairness as in FairSpec; besides, the manager and the health server
\* honour the cancellation of the context they were given.
ShutdownSpec ==
    /\ Init /\ [][ShutdownNext]_vars
    /\ WF_vars(Main)
    /\ WF_vars(Watcher)
    /\ WF_vars(Tick)
    /\ WF_vars(MgrStartReturns)
    /\ WF_vars(HealthzReturns)

\* ----------------------------------------------------------------- claims

\* Positions of the main goroutine, in program order.
NewOperatorPcs == {"GetConfig", "NewManager", "Watchdog", "ServiceReconciler",
                   "GetInformer", "AddEventHandler"}
BeforeSyncPcs == NewOperatorPcs \cup {"RunStart", "WaitForCacheSync"}
BeforeCertPcs == BeforeSyncPcs \cup {"prepareConfig", "lcStart"}
InLoadCertPcs == {"lcRead", "lcWait", "lcCancel"}
AfterCertPcs == {"StartHealthz", "apiServerRun", "apiServerRunning", "Returned"}
InApiRunPcs == {"apiServerRunning", "Returned"}

\* C1 (as claimed): OnComponentUpdated is never invoked before
\* WaitForCacheSync in Run has returned true.
C1_NotifiedOnlyAfterSync ==
    Len(forwarded) > 0 => waitResult = "true"

\* C1 (amended): OnComponentUpdated is never invoked before NewOperator has
\* registered the handlers and Run has launched mgr.Start; nothing holds it
\* back until WaitForCacheSync has returned.
C1_NotifiedOnlyAfterStart ==
    Len(forwarded) > 0 => mgr.handlers /\ pc \notin (NewOperatorPcs \cup {"RunStart"})

\* C1 witness: a Component was forwarded while Run still waits for the sync.
C1_Witness ==
    Len(forwarded) > 0 /\ pc = "WaitForCacheSync" /\ waitResult = "none"

\* C2: the startup steps of Run are sequential, and a failed cache sync or a
\* failed configuration load is fatal with no later step taken.
C2_StartupSequential ==
    /\ pc \notin BeforeSyncPcs => waitResult = "true"
    /\ config = "loaded" => waitResult = "true"
    /\ watchCtxErr # "unset" => config = "loaded"
    /\ pc \in InLoadCertPcs \cup AfterCertPcs => config = "loaded"
    /\ apiChain # NotCalled => pc \in InApiRunPcs /\ certChain # Unset
    /\ waitResult = "false" =>
         /\ fatal = "CacheSync" /\ pc = "WaitForCacheSync"
         /\ config = "nil" /\ watchCtxErr = "unset" /\ apiChain = NotCalled
    /\ fatal = "LoadConfiguration" =>
         /\ pc = "prepareConfig"
         /\ config = "nil" /\ watchCtxErr = "unset" /\ apiChain = NotCalled

\* C2 witness: every step was taken, up to the call of apiServer.Run.
C2_Witness ==
    pc = "apiServerRunning" /\ waitResult = "true" /\ config = "loaded"

\* C3: loadCertChain returns only with the chain of one successful load of
\* all three files, and apiServer.Run is given nothing else.
C3_FullChainOnly ==
    /\ pc \in {"lcCancel"} \cup AfterCertPcs => certChain = AllFiles
    /\ apiChain # NotCalled => apiChain = AllFiles

\* C3 witness: apiServer.Run was given the chain after a retried load.
C3_Witness ==
    apiChain = AllFiles /\ reads > 1

\* C4: readiness is set only by the callback within apiServer.Run, so when
\* it is true every gated step has completed.
C4_ReadyOnlyInApiRun ==
    /\ [](healthz.ready =>
            /\ pc \in InApiRunPcs
            /\ waitResult = "true" /\ config = "loaded"
            /\ certChain = AllFiles /\ apiChain = AllFiles)
    /\ [][healthz.ready # healthz'.ready => pc = "apiServerRunning"]_vars

\* C4 witness: the health endpoint is ready.
C4_Witness ==
    healthz.ready

\* A fatal outcome logged by the watch goroutine of loadCertChain.
WatchFatal == fatal \in {"WatchError", "Timeout"}
\* The main goroutine blocks in <-fsevent.
Waiting == Alive /\ pc = "lcWait" /\ ~ctxDone

\* C5: with the files absent and no filesystem event, loadCertChain does not
\* hang: the wait ends, the process is ended fatally once the deadline has
\* elapsed, and the deadline does not end it earlier.
C5_DeadlineEndsWait ==
    /\ [](Waiting => <>(~Waiting))
    /\ [](watchCtxErr = "DeadlineExceeded" => <>(~Alive))
    /\ [](WatchFatal /\ watchRet # "WatchError" =>
            watchCtxErr = "DeadlineExceeded" /\ elapsed = WatchTimeout)

\* C5 witness: the deadline ended the process while the call waited, with no
\* file loadable and no event.
C5_Witness ==
    /\ WatchFatal /\ watchRet = "DeadlineExceeded"
    /\ pc = "lcWait" /\ files = {} /\ fsEvents = 0

\* C6: a deadline that elapses while the files are not loadable ends the
\* process with the timeout outcome, not with the watch-error outcome.
C6_DeadlineIsTimeout ==
    (WatchFatal /\ watchRet = "DeadlineExceeded" /\ pc = "lcWait")
        => fatal = "Timeout"

\* loadCertChain was called with the three files loadable.
LoadableAtCall == filesAtCall = "loadable"

\* C7 (as claimed): with the files loadable at call time, fswatcher.Watch is
\* not started.
C7_NoWatchWhenLoadable ==
    LoadableAtCall => wpc \in {"notStarted", "spawned"}

\* C7 (amended): with the files loadable at call time, the first load
\* succeeds and the call leaves the loop with its chain, having received
\* nothing from fsevent; the watch goroutine is started all the same.
C7_FirstReadReturns ==
    LoadableAtCall =>
        /\ pc # "lcWait"
        /\ reads <= 1 /\ eventsRecv = 0 /\ closedRecvs = 0
        /\ pc \in {"lcCancel"} \cup AfterCertPcs => reads = 1 /\ certChain = AllFiles

\* C7 witness: the call has returned the chain, and the watch was running.
C7_Witness ==
    LoadableAtCall /\ pc = "StartHealthz" /\ wpc = "watching"

\* C8: every load after the first follows a filesystem event received from
\* fsevent, so the loads number one more than the events received.
C8_OneReadPerEvent ==
    pc \in InLoadCertPcs \cup AfterCertPcs =>
        reads = eventsRecv + (IF pc = "lcRead" THEN 0 ELSE 1)

\* C9: when the files, absent at the call, are all present before the
\* deadline, the waiting call has an event to wake it: no creation is missed.
C9_NoMissedCreation ==
    (/\ filesAtCall = "absent" /\ files = AllFiles
     /\ Waiting /\ watchCtxErr = "nil" /\ wpc \in {"spawned", "watching"})
        => eventsRecv < fsEvents

\* C10: when the root context is cancelled while loadCertChain waits, the
\* call stops: once the watch has ended it attempts no further load.
C10_StopsOnCancel ==
    cancelledInWait => ~lateRead

\* C11: when fswatcher.Watch returns an error other than context.Canceled
\* the watch goroutine ends the process with the watch-error outcome and
\* goes no further; a return with context.Canceled is not fatal: the
\* goroutine closes fsevent and goes on.
C11_WatchErrorIsFatal ==
    /\ [](wpc \in {"closed", "done"} => IsCanceled(watchRet))
    /\ [](fatal = "WatchError" =>
            /\ watchRet \in {"WatchError", "DeadlineExceeded"}
            /\ wpc = "returned" /\ ~fseventClosed)
    /\ [][(wpc = "returned" /\ wpc' # wpc) =>
            IsCanceled(watchRet) /\ fseventClosed' /\ fatal' = fatal]_vars
    /\ [](wpc = "returned" /\ ~IsCanceled(watchRet) => <>(~Alive))

\* C11 witness: Watch failed with an error of the watcher and the process
\* was ended for it.
C11_Witness ==
    fatal = "WatchError" /\ watchRet = "WatchError" /\ wpc = "returned"

\* C12: the watch of a loadCertChain call is torn down when the call ends.
\* On success watchCancel has run before the return, and the watch
\* goroutine, once it is over without an error of the watcher, has closed
\* fsevent; on failure Watch has returned before the fatal outcome.
C12_WatchTornDown ==
    /\ pc \in AfterCertPcs => watchCtxErr \in {"Canceled", "DeadlineExceeded"}
    /\ (/\ pc \in AfterCertPcs
        /\ watchRet \notin {"none", "WatchError"}
        /\ (wpc = "done" \/ WatchFatal)) => fseventClosed
    /\ WatchFatal => wpc \in {"returned", "closed"} /\ watchRet # "none"

\* C20: once loadCertChain has read the chain, the watch goroutine does not
\* end the process: whatever the order of the read, watchCancel() and the
\* expiry of the deadline, no timeout or watch-error outcome follows a
\* successful load (the watcher itself reporting no error).
C20_NoFatalAfterLoad ==
    (certChain = AllFiles /\ watchRet # "WatchError") => ~WatchFatal

\* C13 (as claimed): Run does not block forever in WaitForCacheSync: when
\* the caches do not sync, a deadline ends the wait and the process ends
\* with the cache-sync outcome; a result of false is fatal.
C13_SyncWaitBounded ==
    /\ [](pc = "WaitForCacheSync" => <>(mgr.synced \/ ~Alive))
    /\ [](waitResult = "false" => fatal = "CacheSync")

\* C13 (amended): WaitForCacheSync is given the root context of Run, which
\* carries no deadline.  The wait ends once the caches are synced or the
\* root context is cancelled; it returns false only on that cancellation,
\* and false is fatal with no later step taken.
C13_SyncWaitEndsOnCancel ==
    /\ [](waitResult = "false" =>
            fatal = "CacheSync" /\ ctxDone /\ pc = "WaitForCacheSync")
    /\ [](pc = "WaitForCacheSync" /\ (ctxDone \/ mgr.synced) =>
            <>(pc # "WaitForCacheSync" \/ ~Alive))
    /\ [][pc = "WaitForCacheSync" /\ pc' # pc =>
            mgr.synced /\ waitResult' = "true"]_vars

\* C13 witness: the root context was cancelled while the caches had not
\* synced, and the process was ended for it.
C13_Witness ==
    fatal = "CacheSync" /\ waitResult = "false" /\ ctxDone /\ ~mgr.synced

\* C14: the objects passed to apiServer.OnComponentUpdated are exactly the
\* well-typed payloads of the add and update callbacks delivered so far, in
\* the order delivered and once each (for an update, the new object); a
\* payload of another type is dropped, and no callback is fatal.
C14_ForwardsComponentsInOrder ==
    /\ [](forwarded = SelectSeq(delivered, IsComponent))
    /\ [][delivered' # delivered => fatal = "none" /\ fatal' = "none"]_vars

\* C14 witness: a payload of another type was dropped between two
\* Components, and both were forwarded in the order delivered.
C14_Witness ==
    /\ delivered = <<"compB", "notAComponent", "compA">>
    /\ forwarded = <<"compB", "compA">>
    /\ Alive

\* C15: within one one-minute window the restart (delete pod) actions
\* issued number at most Options.WatchdogMaxRestartsPerMin, however many
\* pods are eligible and whether or not ticks overlap.
C15_RestartsWithinBudget ==
    /\ wd.issued <= WatchdogMaxRestartsPerMin
    /\ mgr.watchdog => wd.maxRestartsPerMin = WatchdogMaxRestartsPerMin

\* C15 witness: the budget of the window is used up while pods of two
\* overlapping ticks still await their evaluation.
C15_Witness ==
    /\ wd.issued = WatchdogMaxRestartsPerMin
    /\ wd.pending > 0 /\ wd.ticks >= 2

\* C16: an instance that is not the elected leader runs no tick of the
\* watchdog: no enumeration and no restart before it is elected.
C16_NoTickWhileNonLeader ==
    (wd.ticks > 0 \/ wd.pending > 0 \/ wd.issued > 0) => leader

\* C18: with WatchdogEnabled and without LeaderElection in the Options, the
\* manager the watchdog is added to has leader election enabled all the
\* same, and the override is reported by a warning.
C18_ElectionForcedForWatchdog ==
    (mgr.watchdog /\ ~opts.LeaderElection) => (mgr.leaderElection /\ warned)

\* C19 (as claimed): the watchdog runs no tick before WaitForCacheSync has
\* returned true and the certificate chain is loaded; with WatchdogEnabled
\* false no watchdog is started.
C19_WatchdogAfterCertChain ==
    /\ wd.ticks > 0 =>
         /\ waitResult = "true" /\ certChain = AllFiles
         /\ pc \in AfterCertPcs
    /\ ~opts.WatchdogEnabled => ~mgr.watchdog /\ wd.ticks = 0

\* C19 (amended): the watchdog is handed to the manager in NewOperator and
\* runs with it: no tick before Run has launched mgr.Start, and nothing
\* holds the ticks back until the cache sync or the certificate chain; with
\* WatchdogEnabled false no watchdog is added and none ever runs.
C19_WatchdogWithManager ==
    /\ wd.ticks > 0 =>
         /\ opts.WatchdogEnabled /\ mgr.watchdog /\ mgr.started
         /\ pc \notin (NewOperatorPcs \cup {"RunStart"})
    /\ mgr.watchdog => opts.WatchdogEnabled
    /\ ~opts.WatchdogEnabled =>
         /\ wd.ticks = 0 /\ wd.pending = 0 /\ wd.issued = 0
         /\ wd.maxRestartsPerMin = 0

\* C19 witness: the watchdog has ticked while Run still waits for the cache
\* sync, with no certificate chain loaded.
C19_Witness ==
    /\ wd.ticks > 0 /\ pc = "WaitForCacheSync"
    /\ waitResult = "none" /\ certChain = Unset

====
